---- MODULE Spec2Model ----
(***************************************************************************)
(* Model of crates/lair_keystore_api/src/config.rs: the construction of a  *)
(* LairServerConfigInner (passphrase pre-hash, argon2id stretch on the     *)
(* blocking pool, sub-key fan-out, secret encryption, locator assembly),   *)
(* its Display rendering and the connection-url helpers.                   *)
(*                                                                         *)
(* Text is a sequence of one-character strings; a few multi-letter tokens  *)
(* ("unix", "socket", "pid_file", ...) stand for fixed runs of letters     *)
(* that contain none of the characters the code or the URL syntax looks    *)
(* at.  "NONUTF8" stands for a byte sequence that is not valid UTF-8.      *)
(***************************************************************************)
EXTENDS Integers, Sequences, FiniteSets, TLC

\* ------------------------------------------------------------------ bounds

\* number of bytes of a public key / seed in the model (32 in the program)
PkBytes == 2
\* number of distinct values each randombytes_buf call can produce
NRand == 2
\* longest argument list of a signature-fallback command
MaxArgs == 2

\* ------------------------------------------------------------- text helpers

Min(S) == CHOOSE x \in S : \A y \in S : x <= y

\* index of the first element of s that lies in C, 0 when there is none
FirstIdx(s, C) ==
  LET I == {i \in 1..Len(s) : s[i] \in C}
  IN IF I = {} THEN 0 ELSE Min(I)

Prefix(s, n) == SubSeq(s, 1, n)
Suffix(s, n) == SubSeq(s, n, Len(s))

\* str::starts_with
StartsWith(s, p) == Len(s) >= Len(p) /\ Prefix(s, Len(p)) = p

\* str::split(c): the pieces between occurrences of c (always at least one)
RECURSIVE Split(_, _)
Split(s, c) ==
  LET i == FirstIdx(s, {c})
  IN IF i = 0 THEN <<s>>
     ELSE <<Prefix(s, i - 1)>> \o Split(Suffix(s, i + 1), c)

\* ------------------------------------------------------------------- paths

\* A std::path::PathBuf: absolute or relative, and its components.
Path(abs, segs) == [abs |-> abs, segs |-> segs]

\* PathBuf::push of a relative single-component name
Push(p, name) == [p EXCEPT !.segs = Append(@, name)]

\* Path::to_str: None when the path is not valid UTF-8
RECURSIVE JoinSegs(_)
JoinSegs(segs) ==
  IF segs = <<>> THEN <<>> ELSE <<"/">> \o Head(segs) \o JoinSegs(Tail(segs))

ToStr(p) ==
  IF \E i \in 1..Len(p.segs) : \E j \in 1..Len(p.segs[i]) : p.segs[i][j] = "NONUTF8"
  THEN [some |-> FALSE]
  ELSE [some |-> TRUE,
        text |-> IF p.abs
                 THEN (IF p.segs = <<>> THEN <<"/">> ELSE JoinSegs(p.segs))
                 ELSE (IF p.segs = <<>> THEN <<>> ELSE Tail(JoinSegs(p.segs)))]

\* directory names of the modelled filesystem
SegT    == <<"t">>
SegX    == <<"x">>
SegHash == <<"a", "#", "b">>
SegQry  == <<"a", "?", "k", "=", "A", "A", "&", "z">>
SegBs   == <<"\\", "p">>
SegRaw  == <<"NONUTF8">>
SegLink == <<"l">>
SegDot  == <<".">>
SegUp   == <<".", ".">>

\* the directories that exist, as absolute component lists; Cwd is one of them
Dirs == { <<>>, <<SegT>>, <<SegT, SegX>>, <<SegT, SegHash>>, <<SegT, SegQry>>,
          <<SegT, SegBs>>, <<SegT, SegRaw>> }
Cwd == <<SegT>>
\* symbolic links: /l -> /t/x
Links == [p \in {<<SegLink>>} |-> <<SegT, SegX>>]

\* dunce::canonicalize (std::fs::canonicalize off Windows): resolve against
\* the working directory, drop ".", follow ".." and links, and fail when a
\* component does not exist.
RECURSIVE Resolve(_, _)
Resolve(at, rest) ==
  IF rest = <<>> THEN [ok |-> TRUE, path |-> Path(TRUE, at)]
  ELSE LET s == Head(rest)
           nxt == IF s = SegDot THEN at
                  ELSE IF s = SegUp
                       THEN (IF at = <<>> THEN at ELSE Prefix(at, Len(at) - 1))
                       ELSE Append(at, s)
           tgt == IF nxt \in DOMAIN Links THEN Links[nxt] ELSE nxt
       IN IF tgt \in Dirs THEN Resolve(tgt, Tail(rest)) ELSE [ok |-> FALSE]

Canonicalize(p) == Resolve(IF p.abs THEN <<>> ELSE Cwd, p.segs)

\* ------------------------------------------------------ fixed-size values

\* Display of BinDataSized<N>: the textual encoding of the bytes
Encode(bytes) == [i \in 1..Len(bytes) |-> IF bytes[i] = 0 THEN "A" ELSE "B"]

\* FromStr of BinDataSized<N>: decode the text, then require exactly N bytes
ParseBin(text) ==
  IF \E i \in 1..Len(text) : text[i] \notin {"A", "B"}
  THEN [ok |-> FALSE, err |-> "decode"]
  ELSE IF Len(text) # PkBytes
       THEN [ok |-> FALSE, err |-> "size"]
       ELSE [ok |-> TRUE, val |-> [i \in 1..PkBytes |-> IF text[i] = "A" THEN 0 ELSE 1]]

\* ---------------------------------------------------------------- locators

NoText == <<"<none>">>

\* url::Url::parse of `scheme:rest` for a non-special scheme: the fragment
\* starts at the first '#', the query at the first '?' before it; what is
\* left is `//authority/path`, `/path`, or an opaque (cannot-be-a-base) path.
UrlParse(text) ==
  IF Len(text) < 2 \/ text[1] \notin {"unix", "tcp", "named-pipe"} \/ text[2] # ":"
  THEN [ok |-> FALSE]
  ELSE
    LET rest  == Suffix(text, 3)
        h     == FirstIdx(rest, {"#"})
        noFr  == IF h = 0 THEN rest ELSE Prefix(rest, h - 1)
        q     == FirstIdx(noFr, {"?"})
        hier  == IF q = 0 THEN noFr ELSE Prefix(noFr, q - 1)
        auth  == Suffix(hier, 3)
        s     == FirstIdx(auth, {"/"})
        hasAu == StartsWith(hier, <<"/", "/">>)
        host  == IF s = 0 THEN auth ELSE Prefix(auth, s - 1)
    IN [ok       |-> TRUE,
        scheme   |-> text[1],
        host     |-> IF hasAu /\ host # <<>> THEN host ELSE NoText,
        path     |-> IF hasAu THEN (IF s = 0 THEN <<>> ELSE Suffix(auth, s)) ELSE hier,
        query    |-> IF q = 0 THEN NoText ELSE Suffix(noFr, q + 1),
        fragment |-> IF h = 0 THEN NoText ELSE Suffix(rest, h + 1),
        href     |-> text]

\* Url::query_pairs: the query split at '&', empty pieces skipped, each piece
\* split at its first '='
RECURSIVE PairsOf(_)
PairsOf(pieces) ==
  IF pieces = <<>> THEN <<>>
  ELSE LET p == Head(pieces)
           e == FirstIdx(p, {"="})
       IN (IF p = <<>> THEN <<>>
           ELSE IF e = 0 THEN << <<p, <<>> >> >>
                ELSE << <<Prefix(p, e - 1), Suffix(p, e + 1)>> >>)
          \o PairsOf(Tail(pieces))

QueryPairs(url) == IF url.query = NoText THEN <<>> ELSE PairsOf(Split(url.query, "&"))

MissingKeyErr == [ok |-> FALSE, err |-> "no server_pub_key on connection_url"]

\* a plausible slip: keep scanning until a `k` value parses
RECURSIVE ScanFirstParsing(_)
ScanFirstParsing(pairs) ==
  IF pairs = <<>> THEN MissingKeyErr
  ELSE IF Head(pairs)[1] = <<"k">> /\ ParseBin(Head(pairs)[2]).ok
       THEN ParseBin(Head(pairs)[2])
       ELSE ScanFirstParsing(Tail(pairs))

\* the for loop over url.query_pairs(): the first pair named k decides
RECURSIVE ScanPairs(_)
ScanPairs(pairs) ==
  IF pairs = <<>> THEN MissingKeyErr
  ELSE IF Head(pairs)[1] = <<"k">> THEN ParseBin(Head(pairs)[2])
       ELSE ScanPairs(Tail(pairs))

\* a plausible slip: skip malformed `k` values instead of reporting them
get_server_pub_key_skipping_malformed(url) == ScanFirstParsing(QueryPairs(url))

\* get_server_pub_key_from_connection_url
get_server_pub_key_from_connection_url(url) == ScanPairs(QueryPairs(url))

\* Url::to_file_path: only a locator without host whose path is absolute
\* decodes to a file path
ToFilePath(url) ==
  IF url.host = NoText /\ StartsWith(url.path, <<"/">>)
  THEN [ok |-> TRUE, path |-> url.path]
  ELSE [ok |-> FALSE]

\* get_connection_path (not(windows)): `.expect(..)` on to_file_path
get_connection_path(url) ==
  IF ToFilePath(url).ok
  THEN [panic |-> FALSE, path |-> ToFilePath(url).path]
  ELSE [panic |-> TRUE, msg |-> "The connection url is invalid"]

\* ------------------------------------------------------- symbolic crypto

\* sodoken::blake2b::blake2b_hash of the passphrase
Blake2b(pw) == [fn |-> "blake2b", input |-> pw]

\* sodoken::argon2::blocking_argon2id(out, pw_hash, salt, ops_limit, mem_limit)
Argon2id(hash, salt, ops, mem) ==
  [fn |-> "argon2id", hash |-> hash, salt |-> salt, ops |-> ops, mem |-> mem]

\* sodoken::kdf::derive_from_key(out, index, context, parent)
DeriveFromKey(index, context, parent) ==
  [fn |-> "kdf", index |-> index, context |-> context, parent |-> parent]

\* sodoken::crypto_box::xsalsa_seed_keypair: the public key of a seed
PublicKeyOf(seed) == [i \in 1..PkBytes |-> 1 - seed[i]]

\* SecretDataSized::encrypt / decrypt: a ciphertext opens only under its key
Encrypt(key, plain) == [fn |-> "secretbox", key |-> key, plain |-> plain]
Decrypt(cipher, key) ==
  IF cipher.key = key THEN [ok |-> TRUE, plain |-> cipher.plain] ELSE [ok |-> FALSE]

\* hc_seed_bundle::PwHashLimits and its cost parameters
LimitTiers == {"Minimum", "Moderate"}
AsOpsLimit(l) == <<"ops_limit", l>>
AsMemLimit(l) == <<"mem_limit", l>>

\* ------------------------------------------------------------------ inputs

\* the r-th value a random buffer can take, and the all-zero buffer
RandBuf(r) == [i \in 1..PkBytes |-> IF i = 1 THEN r % 2 ELSE (r \div 2) % 2]
ZeroBuf == [i \in 1..PkBytes |-> 0]
Rand == {RandBuf(r) : r \in 1..NRand}
Passphrases == {<<"passphrase">>}

RootPaths ==
  { Path(TRUE, <<SegT, SegX>>), Path(TRUE, <<SegT, SegHash>>),
    Path(TRUE, <<SegT, SegQry>>), Path(TRUE, <<SegT, SegBs>>),
    Path(TRUE, <<SegT, SegRaw>>), Path(TRUE, <<SegLink>>),
    Path(FALSE, <<SegX, SegUp, SegDot, SegX>>), Path(TRUE, <<SegX>>) }

ArgTexts == { <<"test-arg1">>, <<"pidFile", ":">> }
ArgLists == UNION {[1..n -> ArgTexts] : n \in 0..MaxArgs}
Fallbacks ==
  {[kind |-> "None"]} \cup
  {[kind |-> "Command", program |-> <<".", "/", "my-executable">>, args |-> a] :
     a \in {[some |-> FALSE]} \cup {[some |-> TRUE, list |-> l] : l \in ArgLists}}

\* ------------------------------------------------------------------- state

Cells == {"passphrase", "pre_secret", "ctx_secret", "id_secret", "context_key", "id_seed"}
Holders == {"ctor", "caller"}
AwaitPoints == {"await_stretch", "await_enc_ctx", "await_enc_id"}
Unset == [unset |-> TRUE]

VARIABLES
  ambient,      \* the PwHashLimits in force for the calling thread right now
  ctor,         \* the locals of the future returned by LairServerConfigInner::new
  task,         \* the closure handed to tokio::task::spawn_blocking
  guards,       \* for each shared cell, who holds its MutexGuard
  result,       \* what the future resolved to
  failed,       \* the stages that reported a failure
  trace,        \* the pipeline stages executed so far, and by which thread
  srv,          \* the caller's record (signature_fallback may be reassigned)
  rendered,     \* output of Display for srv
  pub_key,      \* result of srv.get_server_pub_key()
  yaml_header,  \* whether serde_yaml starts the document with a `---` line
  locator,      \* a connection url handed to the free helper functions
  probe_key,    \* result of get_server_pub_key_from_connection_url(locator)
  probe_path    \* result of get_connection_path(locator)

vars == <<ambient, ctor, task, guards, result, failed, trace, srv, rendered,
          pub_key, yaml_header, locator, probe_key, probe_path>>

ctorVars == <<ctor, task, guards, result, failed, trace>>
postVars == <<srv, rendered, pub_key>>
probeVars == <<locator, probe_key, probe_path>>

CtorInit ==
  [pc |-> "idle", root_path |-> Unset, passphrase |-> Unset, limits |-> Unset,
   pid_file |-> Unset, store_file |-> Unset, pw_hash |-> Unset,
   ops_limit |-> Unset, mem_limit |-> Unset, salt |-> Unset, pre_secret |-> Unset,
   ctx_secret |-> Unset, id_secret |-> Unset, context_key |-> Unset,
   id_seed |-> Unset, id_pk |-> Unset, enc_context_key |-> Unset,
   enc_id_seed |-> Unset, enc_args |-> Unset, url_text |-> Unset, connection_url |-> Unset,
   db_salt |-> Unset]

Init ==
  /\ ambient \in LimitTiers
  /\ ctor = CtorInit
  /\ task = [st |-> "none"]
  /\ guards = [c \in Cells |-> {}]
  /\ result = [kind |-> "pending"]
  /\ failed = {}
  /\ trace = <<>>
  /\ srv = Unset
  /\ rendered = Unset
  /\ pub_key = Unset
  /\ yaml_header \in BOOLEAN
  /\ locator = Unset
  /\ probe_key = Unset
  /\ probe_path = Unset

\* the `?` operator: the future resolves to Err and the locals are dropped
Fail(stage) ==
  /\ result' = [kind |-> "err", stage |-> stage]
  /\ failed' = failed \cup {stage}
  /\ ctor' = [ctor EXCEPT !.pc = "done"]

Event(stage, by) == trace' = Append(trace, [stage |-> stage, by |-> by])

Acquire(cells, who) ==
  /\ \A c \in cells : guards[c] = {}
  /\ guards' = [c \in Cells |-> IF c \in cells THEN {who} ELSE guards[c]]

Release(cells, who) ==
  guards' = [c \in Cells |-> IF c \in cells THEN guards[c] \ {who} ELSE guards[c]]

\* ------------------------------------------- LairServerConfigInner::new

\* the synchronous part of `new`: the root path is copied and the ambient
\* limits are captured before the future exists
New ==
  /\ ctor.pc = "idle"
  /\ \E rp \in RootPaths, pw \in Passphrases :
       ctor' = [ctor EXCEPT !.pc = "start", !.root_path = rp,
                            !.passphrase = pw, !.limits = ambient]
  /\ UNCHANGED <<ambient, task, guards, result, failed, trace, postVars,
                 yaml_header, probeVars>>

\* first poll: pid_file, store_file, and the allocation of pw_hash
Begin ==
  /\ ctor.pc = "start"
  /\ \/ /\ ctor' = [ctor EXCEPT !.pc = "prehash_lock",
                                !.pid_file = Push(ctor.root_path, <<"pid_file">>),
                                !.store_file = Push(ctor.root_path, <<"store_file">>)]
        /\ UNCHANGED <<result, failed>>
     \/ Fail("alloc_pw_hash")
  /\ UNCHANGED <<ambient, task, guards, trace, postVars, yaml_header, probeVars>>

\* `passphrase.lock().unwrap()`: the guard is a temporary of the statement
\* (a poisoned mutex, which makes the unwrap panic, needs a holder that
\* panicked with the guard; no holder modelled here does)
PreHashLock ==
  /\ ctor.pc = "prehash_lock"
  /\ Acquire({"passphrase"}, "ctor")
  /\ ctor' = [ctor EXCEPT !.pc = "prehash_run"]
  /\ UNCHANGED <<ambient, task, result, failed, trace, postVars, yaml_header, probeVars>>

\* a plausible slip: the guard is bound to a local and outlives the statement
PreHashRunKeepingGuard ==
  /\ ctor.pc = "prehash_run"
  /\ Event("prehash", "ctor")
  /\ ctor' = [ctor EXCEPT !.pc = "spawn", !.pw_hash = Blake2b(ctor.passphrase)]
  /\ UNCHANGED <<ambient, task, guards, result, failed, postVars, yaml_header, probeVars>>

\* blake2b_hash(..)?; the guard is dropped at the end of the statement
PreHashRun ==
  /\ ctor.pc = "prehash_run"
  /\ Event("prehash", "ctor")
  /\ Release({"passphrase"}, "ctor")
  /\ \/ /\ ctor' = [ctor EXCEPT !.pc = "spawn", !.pw_hash = Blake2b(ctor.passphrase)]
        /\ UNCHANGED <<result, failed>>
     \/ Fail("prehash")
  /\ UNCHANGED <<ambient, task, postVars, yaml_header, probeVars>>

\* a plausible slip: the stretch is run inline by the async task
SpawnInline ==
  /\ ctor.pc = "spawn"
  /\ \E r \in Rand :
       /\ ctor' = [ctor EXCEPT !.pc = "await_stretch",
                               !.ops_limit = AsOpsLimit(ctor.limits),
                               !.mem_limit = AsMemLimit(ctor.limits)]
       /\ task' = [st |-> "done", ok |-> TRUE, salt |-> r,
                   pre_secret |-> Argon2id(ctor.pw_hash, r, AsOpsLimit(ctor.limits),
                                           AsMemLimit(ctor.limits))]
  /\ Event("stretch", "ctor")
  /\ UNCHANGED <<ambient, guards, result, failed, postVars, yaml_header, probeVars>>

\* the captured limits are read, the closure is queued on the blocking pool
\* and the future suspends on its JoinHandle
SpawnBlocking ==
  /\ ctor.pc = "spawn"
  /\ ctor' = [ctor EXCEPT !.pc = "await_stretch",
                          !.ops_limit = AsOpsLimit(ctor.limits),
                          !.mem_limit = AsMemLimit(ctor.limits)]
  /\ task' = [st |-> "queued", pw_hash |-> ctor.pw_hash,
              ops_limit |-> AsOpsLimit(ctor.limits),
              mem_limit |-> AsMemLimit(ctor.limits)]
  /\ UNCHANGED <<ambient, guards, result, failed, trace, postVars, yaml_header, probeVars>>

\* blocking thread: randombytes_buf(&mut salt)?
StretchSalt ==
  /\ task.st = "queued"
  /\ \/ \E r \in Rand :
          /\ task' = [task EXCEPT !.st = "salted"] @@ [salt |-> r]
          /\ UNCHANGED failed
     \/ /\ task' = [st |-> "done", ok |-> FALSE, stage |-> "salt"]
        /\ failed' = failed \cup {"salt"}
  /\ UNCHANGED <<ambient, ctor, guards, result, trace, postVars, yaml_header, probeVars>>

\* blocking thread: allocation of pre_secret and blocking_argon2id(..)?
StretchArgon ==
  /\ task.st = "salted"
  /\ Event("stretch", "blocking")
  /\ \/ /\ task' = [st |-> "done", ok |-> TRUE, salt |-> task.salt,
                    pre_secret |-> Argon2id(task.pw_hash, task.salt,
                                            task.ops_limit, task.mem_limit)]
        /\ UNCHANGED failed
     \/ \E stage \in {"alloc_pre_secret", "argon2id"} :
          /\ task' = [st |-> "done", ok |-> FALSE, stage |-> stage]
          /\ failed' = failed \cup {stage}
  /\ UNCHANGED <<ambient, ctor, guards, result, postVars, yaml_header, probeVars>>

\* blocking thread: the closure panics or the pool is shut down (JoinError)
StretchJoinError ==
  /\ task.st \in {"queued", "salted"}
  /\ task' = [st |-> "done", ok |-> FALSE, stage |-> "join"]
  /\ failed' = failed \cup {"join"}
  /\ UNCHANGED <<ambient, ctor, guards, result, trace, postVars, yaml_header, probeVars>>

\* `.await.map_err(OneErr::new)??` and `Arc::new(Mutex::new(pre_secret))`
JoinStretch ==
  /\ ctor.pc = "await_stretch"
  /\ task.st = "done"
  /\ IF task.ok
     THEN /\ ctor' = [ctor EXCEPT !.pc = "ctx_lock", !.salt = task.salt,
                                  !.pre_secret = task.pre_secret]
          /\ UNCHANGED <<result, failed>>
     ELSE /\ result' = [kind |-> "err", stage |-> task.stage]
          /\ ctor' = [ctor EXCEPT !.pc = "done"]
          /\ UNCHANGED failed
  /\ UNCHANGED <<ambient, task, guards, trace, postVars, yaml_header, probeVars>>

\* allocation of ctx_secret, then `pre_secret.lock().unwrap()`
DeriveCtxLock ==
  /\ ctor.pc = "ctx_lock"
  /\ \/ /\ Acquire({"pre_secret"}, "ctor")
        /\ ctor' = [ctor EXCEPT !.pc = "ctx_run"]
        /\ UNCHANGED <<result, failed>>
     \/ /\ Fail("alloc_ctx_secret")
        /\ UNCHANGED guards
  /\ UNCHANGED <<ambient, task, trace, postVars, yaml_header, probeVars>>

\* derive_from_key(ctx_secret, 42, b"CtxSecKy", pre_secret)?
DeriveCtxRun ==
  /\ ctor.pc = "ctx_run"
  /\ Event("fanout", "ctor")
  /\ Release({"pre_secret"}, "ctor")
  /\ \/ /\ ctor' = [ctor EXCEPT !.pc = "id_lock",
                      !.ctx_secret = DeriveFromKey(42, "CtxSecKy", ctor.pre_secret)]
        /\ UNCHANGED <<result, failed>>
     \/ Fail("derive_ctx")
  /\ UNCHANGED <<ambient, task, postVars, yaml_header, probeVars>>

\* allocation of id_secret, then `pre_secret.lock().unwrap()`
DeriveIdLock ==
  /\ ctor.pc = "id_lock"
  /\ \/ /\ Acquire({"pre_secret"}, "ctor")
        /\ ctor' = [ctor EXCEPT !.pc = "id_run"]
        /\ UNCHANGED <<result, failed>>
     \/ /\ Fail("alloc_id_secret")
        /\ UNCHANGED guards
  /\ UNCHANGED <<ambient, task, trace, postVars, yaml_header, probeVars>>

\* derive_from_key(id_secret, 142, b"IdnSecKy", pre_secret)?
DeriveIdRun ==
  /\ ctor.pc = "id_run"
  /\ Event("fanout", "ctor")
  /\ Release({"pre_secret"}, "ctor")
  /\ \/ /\ ctor' = [ctor EXCEPT !.pc = "rand_ctx",
                      !.id_secret = DeriveFromKey(142, "IdnSecKy", ctor.pre_secret)]
        /\ UNCHANGED <<result, failed>>
     \/ Fail("derive_id")
  /\ UNCHANGED <<ambient, task, postVars, yaml_header, probeVars>>

\* allocation of context_key and randombytes_buf(context_key)?
RandContextKey ==
  /\ ctor.pc = "rand_ctx"
  /\ \/ /\ \E r \in Rand : ctor' = [ctor EXCEPT !.pc = "rand_seed", !.context_key = r]
        /\ UNCHANGED <<result, failed>>
     \/ \E stage \in {"alloc_context_key", "rand_context_key"} : Fail(stage)
  /\ UNCHANGED <<ambient, task, guards, trace, postVars, yaml_header, probeVars>>

\* a plausible slip: a failed randombytes_buf is ignored and the zeroed
\* buffer is used as the seed
RandIdSeedIgnoringFailure ==
  /\ ctor.pc = "rand_seed"
  /\ \/ /\ \E r \in Rand : ctor' = [ctor EXCEPT !.pc = "keypair", !.id_seed = r]
        /\ UNCHANGED failed
     \/ /\ ctor' = [ctor EXCEPT !.pc = "keypair", !.id_seed = ZeroBuf]
        /\ failed' = failed \cup {"rand_id_seed"}
  /\ UNCHANGED <<ambient, task, guards, result, trace, postVars, yaml_header, probeVars>>

\* allocation of id_seed and randombytes_buf(id_seed)?
RandIdSeed ==
  /\ ctor.pc = "rand_seed"
  /\ \/ /\ \E r \in Rand : ctor' = [ctor EXCEPT !.pc = "keypair", !.id_seed = r]
        /\ UNCHANGED <<result, failed>>
     \/ \E stage \in {"alloc_id_seed", "rand_id_seed"} : Fail(stage)
  /\ UNCHANGED <<ambient, task, guards, trace, postVars, yaml_header, probeVars>>

\* allocation of id_sk and xsalsa_seed_keypair(id_pk, id_sk, id_seed)?
SeedKeypair ==
  /\ ctor.pc = "keypair"
  /\ \/ /\ ctor' = [ctor EXCEPT !.pc = "call_enc_ctx", !.id_pk = PublicKeyOf(ctor.id_seed)]
        /\ UNCHANGED <<result, failed>>
     \/ \E stage \in {"alloc_id_sk", "keypair"} : Fail(stage)
  /\ UNCHANGED <<ambient, task, guards, trace, postVars, yaml_header, probeVars>>

\* a plausible slip: the context key is handed to encrypt with the identity sub-key
CallEncryptCtxCrossed ==
  /\ ctor.pc = "call_enc_ctx"
  /\ ctor' = [ctor EXCEPT !.pc = "await_enc_ctx",
                          !.enc_args = [key |-> ctor.id_secret, data |-> ctor.context_key]]
  /\ UNCHANGED <<ambient, task, guards, result, failed, trace, postVars, yaml_header, probeVars>>

\* SecretDataSized::encrypt(ctx_secret, Arc::new(Mutex::new(context_key))).await
CallEncryptCtx ==
  /\ ctor.pc = "call_enc_ctx"
  /\ ctor' = [ctor EXCEPT !.pc = "await_enc_ctx",
                          !.enc_args = [key |-> ctor.ctx_secret, data |-> ctor.context_key]]
  /\ UNCHANGED <<ambient, task, guards, result, failed, trace, postVars, yaml_header, probeVars>>

\* inside encrypt: both cells are locked for the one encryption
EncryptCtxLock ==
  /\ ctor.pc = "await_enc_ctx"
  /\ Acquire({"ctx_secret", "context_key"}, "ctor")
  /\ ctor' = [ctor EXCEPT !.pc = "enc_ctx_run"]
  /\ UNCHANGED <<ambient, task, result, failed, trace, postVars, yaml_header, probeVars>>

\* inside encrypt: the ciphertext is produced and the guards are dropped; `?`
EncryptCtxRun ==
  /\ ctor.pc = "enc_ctx_run"
  /\ Event("encrypt", "ctor")
  /\ Release({"ctx_secret", "context_key"}, "ctor")
  /\ \/ /\ ctor' = [ctor EXCEPT !.pc = "call_enc_id",
                      !.enc_context_key = Encrypt(ctor.enc_args.key, ctor.enc_args.data)]
        /\ UNCHANGED <<result, failed>>
     \/ Fail("encrypt_ctx")
  /\ UNCHANGED <<ambient, task, postVars, yaml_header, probeVars>>

\* SecretDataSized::encrypt(id_secret, Arc::new(Mutex::new(id_seed))).await
CallEncryptId ==
  /\ ctor.pc = "call_enc_id"
  /\ ctor' = [ctor EXCEPT !.pc = "await_enc_id",
                          !.enc_args = [key |-> ctor.id_secret, data |-> ctor.id_seed]]
  /\ UNCHANGED <<ambient, task, guards, result, failed, trace, postVars, yaml_header, probeVars>>

EncryptIdLock ==
  /\ ctor.pc = "await_enc_id"
  /\ Acquire({"id_secret", "id_seed"}, "ctor")
  /\ ctor' = [ctor EXCEPT !.pc = "enc_id_run"]
  /\ UNCHANGED <<ambient, task, result, failed, trace, postVars, yaml_header, probeVars>>

EncryptIdRun ==
  /\ ctor.pc = "enc_id_run"
  /\ Event("encrypt", "ctor")
  /\ Release({"id_secret", "id_seed"}, "ctor")
  /\ \/ /\ ctor' = [ctor EXCEPT !.pc = "build_url",
                      !.enc_id_seed = Encrypt(ctor.enc_args.key, ctor.enc_args.data)]
        /\ UNCHANGED <<result, failed>>
     \/ Fail("encrypt_id")
  /\ UNCHANGED <<ambient, task, postVars, yaml_header, probeVars>>

\* a plausible slip: components that begin with a backslash are dropped
RECURSIVE DropBackslashSegs(_)
DropBackslashSegs(segs) ==
  IF segs = <<>> THEN <<>>
  ELSE (IF StartsWith(Head(segs), <<"\\">>) THEN <<>> ELSE <<Head(segs)>>)
       \o DropBackslashSegs(Tail(segs))

ConPathSanitized(can) == Push(Path(TRUE, DropBackslashSegs(can.segs)), <<"socket">>)

\* `con_path.push("socket")` on the canonicalized root
ConPath(can) == Push(can, <<"socket">>)

\* format!("unix://{}?k={}", con_path, id_pk)
LocatorText(pathText, pk) ==
  <<"unix", ":", "/", "/">> \o pathText \o <<"?", "k", "=">> \o Encode(pk)

\* the not(windows) connection_url block
BuildUrl ==
  /\ ctor.pc = "build_url"
  /\ LET can == Canonicalize(ctor.root_path)
     IN \/ /\ can.ok
           /\ LET str == ToStr(ConPath(can.path))
              IN IF str.some /\ UrlParse(LocatorText(str.text, ctor.id_pk)).ok
                 THEN /\ ctor' = [ctor EXCEPT !.pc = "db_salt",
                            !.url_text = LocatorText(str.text, ctor.id_pk),
                            !.connection_url = UrlParse(LocatorText(str.text, ctor.id_pk))]
                      /\ UNCHANGED <<result, failed>>
                 ELSE \* `.unwrap()` panics: the future never resolves to a value
                      /\ result' = [kind |-> "panic"]
                      /\ ctor' = [ctor EXCEPT !.pc = "done"]
                      /\ UNCHANGED failed
        \/ \* canonicalize reports an I/O error (always, when the path does not exist)
           Fail("canonicalize")
  /\ UNCHANGED <<ambient, task, guards, trace, postVars, yaml_header, probeVars>>

\* randombytes_buf(&mut db_salt)?
DbSalt ==
  /\ ctor.pc = "db_salt"
  /\ \/ /\ \E r \in Rand : ctor' = [ctor EXCEPT !.pc = "assemble", !.db_salt = r]
        /\ UNCHANGED <<result, failed>>
     \/ Fail("db_salt")
  /\ UNCHANGED <<ambient, task, guards, trace, postVars, yaml_header, probeVars>>

Config(url, pid, store, dbsalt, salt, mem, ops, ck, seed) ==
  [connection_url |-> url, pid_file |-> pid, store_file |-> store,
   signature_fallback |-> [kind |-> "None"], database_salt |-> dbsalt,
   runtime_secrets_salt |-> salt, runtime_secrets_mem_limit |-> mem,
   runtime_secrets_ops_limit |-> ops, runtime_secrets_context_key |-> ck,
   runtime_secrets_id_seed |-> seed]

\* a plausible slip: the record stores the limits in force when it is assembled
AssembledWithAmbientLimits ==
  Config(ctor.connection_url, ctor.pid_file, ctor.store_file, ctor.db_salt,
         ctor.salt, AsMemLimit(ambient), AsOpsLimit(ambient),
         ctor.enc_context_key, ctor.enc_id_seed)

\* the struct literal of `new`
Assembled ==
  Config(ctor.connection_url, ctor.pid_file, ctor.store_file, ctor.db_salt,
         ctor.salt, ctor.mem_limit, ctor.ops_limit,
         ctor.enc_context_key, ctor.enc_id_seed)

\* Ok(config)
Assemble ==
  /\ ctor.pc = "assemble"
  /\ Event("assemble", "ctor")
  /\ result' = [kind |-> "ok", config |-> Assembled]
  /\ srv' = Assembled
  /\ ctor' = [ctor EXCEPT !.pc = "done"]
  /\ UNCHANGED <<ambient, task, guards, failed, rendered, pub_key, yaml_header, probeVars>>

\* LairServerConfigInner::get_server_pub_key on the returned record
GetServerPubKey ==
  /\ srv # Unset
  /\ pub_key' = get_server_pub_key_from_connection_url(srv.connection_url)
  /\ UNCHANGED <<ambient, ctorVars, srv, rendered, yaml_header, probeVars>>

\* ------------------------------------------------------------ environment

\* the thread-local PwHashLimits changes (a with_exec scope begins or ends)
AmbientChange ==
  /\ \E l \in LimitTiers \ {ambient} : ambient' = l
  /\ UNCHANGED <<ctorVars, postVars, yaml_header, probeVars>>

\* the caller keeps a clone of the passphrase handle and may lock it
CallerLock ==
  /\ ctor.pc # "idle"
  /\ Acquire({"passphrase"}, "caller")
  /\ UNCHANGED <<ambient, ctor, task, result, failed, trace, postVars, yaml_header, probeVars>>

CallerUnlock ==
  /\ "caller" \in guards["passphrase"]
  /\ Release({"passphrase"}, "caller")
  /\ UNCHANGED <<ambient, ctor, task, result, failed, trace, postVars, yaml_header, probeVars>>

Next ==
  \/ New \/ Begin \/ PreHashLock \/ PreHashRun \/ SpawnBlocking
  \/ StretchSalt \/ StretchArgon \/ StretchJoinError \/ JoinStretch
  \/ DeriveCtxLock \/ DeriveCtxRun \/ DeriveIdLock \/ DeriveIdRun
  \/ RandContextKey \/ RandIdSeed \/ SeedKeypair
  \/ CallEncryptCtx \/ EncryptCtxLock \/ EncryptCtxRun
  \/ CallEncryptId \/ EncryptIdLock \/ EncryptIdRun
  \/ BuildUrl \/ DbSalt \/ Assemble \/ GetServerPubKey
  \/ AmbientChange \/ CallerLock \/ CallerUnlock

Spec == Init /\ [][Next]_vars

\* ------------------------------------------------------- Display rendering

Ind(n) == [i \in 1..n |-> " "]

\* the lines serde_yaml writes for signature_fallback; with the `---` header
\* an enum variant is a nested mapping, without it a `!tag`
FallbackLines(fb, header) ==
  IF fb.kind = "None"
  THEN << <<"signatureFallback", ":", " ", "none">> >>
  ELSE LET d == IF header THEN 4 ELSE 2
           first == IF header
                    THEN << <<"signatureFallback", ":">>, Ind(2) \o <<"command", ":">> >>
                    ELSE << <<"signatureFallback", ":", " ", "!command">> >>
           prog == << Ind(d) \o <<"program", ":", " ">> \o fb.program >>
           args == IF fb.args.some
                   THEN << Ind(d) \o <<"args", ":">> >> \o
                        [i \in 1..Len(fb.args.list) |->
                           Ind(d) \o <<"-", " ">> \o fb.args.list[i]]
                   ELSE << Ind(d) \o <<"args", ":", " ", "null">> >>
       IN first \o prog \o args

\* serde_yaml::to_string(&self), split at '\n': one line per field in
\* declaration order, and the empty piece after the final newline
ToYamlLines(cfg, header) ==
  (IF header THEN << <<"-", "-", "-">> >> ELSE <<>>)
  \o << <<"connectionUrl", ":", " ">> \o cfg.connection_url.href,
        <<"pidFile", ":", " ">> \o ToStr(cfg.pid_file).text,
        <<"storeFile", ":", " ">> \o ToStr(cfg.store_file).text >>
  \o FallbackLines(cfg.signature_fallback, header)
  \o << <<"databaseSalt", ":", " ", "<bytes>">>,
        <<"runtimeSecretsSalt", ":", " ", "<bytes>">>,
        <<"runtimeSecretsMemLimit", ":", " ", "<u32>">>,
        <<"runtimeSecretsOpsLimit", ":", " ", "<u32>">>,
        <<"runtimeSecretsContextKey", ":", " ", "<bytes>">>,
        <<"runtimeSecretsIdSeed", ":", " ", "<bytes>">>,
        <<>> >>

BannerFields == <<"connectionUrl", "pidFile", "storeFile", "signatureFallback", "databaseSalt">>

\* the comment lines pushed before a field's line (each a one-token text;
\* a backquote of the source is written ' here)
Banner(field) ==
  CASE field = "connectionUrl" ->
         << <<>>,
            <<"# The connection url for communications between server / client.">>,
            <<"# - 'unix:///path/to/unix/socket?k=Yada'">>,
            <<"# - 'named_pipe:\\\\.\\pipe\\my_pipe_name?k=Yada'">>,
            <<"# - (not yet supported) 'tcp://127.0.0.1:12345?k=Yada'">> >>
    [] field = "pidFile" ->
         << <<>>, <<"# The pid file for managing a running lair-keystore process">> >>
    [] field = "storeFile" ->
         << <<>>, <<"# The sqlcipher store file for persisting secrets">> >>
    [] field = "signatureFallback" ->
         << <<>>,
            <<"# Configuration for managing sign_by_pub_key fallback">>,
            <<"# in case the pub key does not exist in the lair store.">>,
            <<"# - 'signatureFallback: none'">>,
            <<"# - '''">>,
            <<"#   signatureFallback: !command">>,
            <<"#     # 'program' will resolve to a path, specifying 'echo'">>,
            <<"#     # will try to run './echo', probably not what you want.">>,
            <<"#     program: \"./my-executable\"">>,
            <<"#     # args are optional">>,
            <<"#     args:">>,
            <<"#       - test-arg1">>,
            <<"#       - test-arg2">>,
            <<"#   '''">> >>
    [] field = "databaseSalt" ->
         << <<>>,
            <<"# -- cryptographic secrets --">>,
            <<"# If you modify the data below, you risk losing access to your keys.">> >>
    [] OTHER -> <<>>

\* the if / else-if chain: the banner of the first field name the line starts with
BannerOf(line) ==
  LET I == {i \in 1..Len(BannerFields) : StartsWith(line, <<BannerFields[i], ":">>)}
  IN IF I = {} THEN <<>> ELSE Banner(BannerFields[Min(I)])

\* the loop of Display::fmt over s.split('\n').enumerate(); id counts from 0
RECURSIVE DisplayFrom(_, _)
DisplayFrom(lines, id) ==
  IF lines = <<>> THEN <<>>
  ELSE (IF id > 0 THEN BannerOf(Head(lines)) ELSE <<>>)
       \o <<Head(lines)>> \o DisplayFrom(Tail(lines), id + 1)

\* Display::fmt; the output is kept as its lines (they are joined with '\n')
Display(cfg, header) == DisplayFrom(ToYamlLines(cfg, header), 0)

\* a record as `new` returns it for the root /t/x
SampleConfig ==
  Config(UrlParse(LocatorText(<<"/", "t", "/", "x", "/", "socket">>, PublicKeyOf(RandBuf(1)))),
         Path(TRUE, <<SegT, SegX, <<"pid_file">> >>),
         Path(TRUE, <<SegT, SegX, <<"store_file">> >>),
         RandBuf(1), RandBuf(1), AsMemLimit("Minimum"), AsOpsLimit("Minimum"),
         Encrypt(DeriveFromKey(42, "CtxSecKy", "pre"), RandBuf(1)),
         Encrypt(DeriveFromKey(142, "IdnSecKy", "pre"), RandBuf(1)))

InitDisplay ==
  /\ ambient = "Minimum"
  /\ ctor = CtorInit
  /\ task = [st |-> "none"]
  /\ guards = [c \in Cells |-> {}]
  /\ result = [kind |-> "pending"]
  /\ failed = {}
  /\ trace = <<>>
  /\ srv = SampleConfig
  /\ rendered = Unset
  /\ pub_key = Unset
  /\ yaml_header \in BOOLEAN
  /\ locator = Unset
  /\ probe_key = Unset
  /\ probe_path = Unset

\* `srv.signature_fallback = ..` (the field is public)
SetSignatureFallback ==
  /\ srv # Unset
  /\ \E fb \in Fallbacks : srv' = [srv EXCEPT !.signature_fallback = fb]
  /\ UNCHANGED <<ambient, ctorVars, rendered, pub_key, yaml_header, probeVars>>

\* println!("{}", &srv)
Render ==
  /\ srv # Unset
  /\ rendered' = [doc |-> ToYamlLines(srv, yaml_header), out |-> Display(srv, yaml_header)]
  /\ UNCHANGED <<ambient, ctorVars, srv, pub_key, yaml_header, probeVars>>

NextDisplay == SetSignatureFallback \/ Render

SpecDisplay == InitDisplay /\ [][NextDisplay]_vars

\* ------------------------------------------------ connection-url helpers

\* longest query of a probed locator, in pairs
MaxPairs == 2

PairTexts ==
  { <<"k", "=">> \o Encode(PublicKeyOf(RandBuf(1))),
    <<"k", "=">> \o Encode(PublicKeyOf(RandBuf(2))),
    <<"k", "=", "A">>,
    <<"k", "=", "A", "!">>,
    <<"k">>,
    <<"x", "=", "A", "B">> }

RECURSIVE JoinAmp(_)
JoinAmp(ps) ==
  IF ps = <<>> THEN <<>>
  ELSE IF Len(ps) = 1 THEN Head(ps)
       ELSE Head(ps) \o <<"&">> \o JoinAmp(Tail(ps))

QueryTexts ==
  {<<>>} \cup {<<"?">> \o JoinAmp(ps) : ps \in UNION {[1..n -> PairTexts] : n \in 0..MaxPairs}}

HierTexts ==
  { <<"/", "/", "/", "t", "/", "socket">>,
    <<"/", "t", "/", "socket">>,
    <<"t", "/", "socket">>,
    <<"/", "/", "h", "/", "socket">>,
    <<"/", "/", "h">>,
    <<"/", "/">> }

LocatorTexts ==
  {<<sch, ":">> \o hier \o qry : sch \in {"unix", "tcp"}, hier \in HierTexts, qry \in QueryTexts}

InitUrl ==
  /\ ambient = "Minimum"
  /\ ctor = CtorInit
  /\ task = [st |-> "none"]
  /\ guards = [c \in Cells |-> {}]
  /\ result = [kind |-> "pending"]
  /\ failed = {}
  /\ trace = <<>>
  /\ srv = Unset
  /\ rendered = Unset
  /\ pub_key = Unset
  /\ yaml_header = FALSE
  /\ locator \in {UrlParse(t) : t \in LocatorTexts}
  /\ probe_key = Unset
  /\ probe_path = Unset

ProbeKey ==
  /\ locator # Unset
  /\ probe_key' = get_server_pub_key_from_connection_url(locator)
  /\ UNCHANGED <<ambient, ctorVars, postVars, yaml_header, locator, probe_path>>

ProbePath ==
  /\ locator # Unset
  /\ probe_path' = get_connection_path(locator)
  /\ UNCHANGED <<ambient, ctorVars, postVars, yaml_header, locator, probe_key>>

NextUrl == ProbeKey \/ ProbePath

SpecUrl == InitUrl /\ [][NextUrl]_vars

\* ================================================================ claims

\* the identity sub-key a holder of the passphrase re-derives from the record
IdSubKeyFor(cfg, pw) ==
  DeriveFromKey(142, "IdnSecKy",
    Argon2id(Blake2b(pw), cfg.runtime_secrets_salt,
             cfg.runtime_secrets_ops_limit, cfg.runtime_secrets_mem_limit))

CtorFieldsOfRecord ==
  {"pw_hash", "salt", "pre_secret", "ctx_secret", "id_secret", "context_key",
   "id_seed", "id_pk", "enc_context_key", "enc_id_seed", "connection_url", "db_salt"}

\* C1: new is all-or-nothing.  Once any stage has reported a failure no
\* record exists and no later stage runs: the future is either still waiting
\* to observe the failure of the blocking task or has resolved to an error
\* naming a failed stage.  A record is returned only when no stage failed
\* and every stage has produced its output.
C1_AllOrNothing ==
  /\ failed # {} =>
       /\ srv = Unset
       /\ result.kind \in {"pending", "err"}
       /\ ctor.pc \in {"await_stretch", "done"}
       /\ ctor.pc = "done" => result.kind = "err"
  /\ result.kind = "err" => result.stage \in failed /\ srv = Unset
  /\ result.kind = "ok" =>
       /\ failed = {}
       /\ srv = result.config
       /\ \A f \in CtorFieldsOfRecord : ctor[f] # Unset
       /\ \A f \in DOMAIN result.config : result.config[f] # Unset
  /\ srv # Unset => result.kind = "ok"

\* C1 witness: the last fallible stage fails after every secret was produced
C1_Witness ==
  /\ result = [kind |-> "err", stage |-> "db_salt"]
  /\ ctor.enc_id_seed # Unset
  /\ srv = Unset

\* C2: the salt and limits stored in a returned record are the ones argon2id
\* was run with to produce the pre-secret both encrypting sub-keys derive from
C2_StoredKdfParamsAreThoseUsed ==
  result.kind = "ok" =>
    LET cfg == result.config
        pre == cfg.runtime_secrets_context_key.key.parent
    IN /\ cfg.runtime_secrets_id_seed.key.parent = pre
       /\ pre.fn = "argon2id"
       /\ pre.salt = cfg.runtime_secrets_salt
       /\ pre.ops = cfg.runtime_secrets_ops_limit
       /\ pre.mem = cfg.runtime_secrets_mem_limit

\* C2 witness: a record is returned while the ambient limits differ from the
\* ones captured by the call
C2_Witness ==
  /\ result.kind = "ok"
  /\ ambient # ctor.limits
  /\ result.config.runtime_secrets_ops_limit = AsOpsLimit(ctor.limits)

\* C3 (as claimed): the key get_server_pub_key reads from connection_url is
\* the public key of the seed that decrypts from runtime_secrets_id_seed
C3_UrlKeyIsKeyOfStoredSeed ==
  (pub_key # Unset /\ result.kind = "ok") =>
    LET seed == Decrypt(srv.runtime_secrets_id_seed, IdSubKeyFor(srv, ctor.passphrase))
    IN /\ seed.ok
       /\ pub_key = [ok |-> TRUE, val |-> PublicKeyOf(seed.plain)]

\* C4: without a `k` pair the result is the fixed missing-key error; with
\* one it is the parse of the first `k` pair's value and never that error
C4_MissingVersusMalformed ==
  probe_key # Unset =>
    LET pairs == QueryPairs(locator)
        K == {i \in 1..Len(pairs) : pairs[i][1] = <<"k">>}
    IN IF K = {}
       THEN probe_key = MissingKeyErr
       ELSE /\ probe_key = ParseBin(pairs[Min(K)][2])
            /\ probe_key # MissingKeyErr

\* C4 witness: the first `k` is malformed, a later one would parse, and the
\* parse error of the first is what came back
C4_Witness ==
  /\ probe_key # Unset
  /\ LET pairs == QueryPairs(locator)
     IN /\ Len(pairs) = 2
        /\ pairs[1][1] = <<"k">> /\ ~ParseBin(pairs[1][2]).ok
        /\ pairs[2][1] = <<"k">> /\ ParseBin(pairs[2][2]).ok
  /\ ~probe_key.ok
  /\ probe_key.err \in {"decode", "size"}

\* C5 (as claimed): get_connection_path never panics
C5_PathErrorIsAValue ==
  probe_path # Unset => ~probe_path.panic

\* the canonicalized root with `socket` appended, written as text
SocketPathText(root) == JoinSegs(Append(Canonicalize(root).path.segs, <<"socket">>))

\* text cut at its first '?' or '#'
UpToQueryOrFragment(text) ==
  LET i == FirstIdx(text, {"?", "#"})
  IN IF i = 0 THEN text ELSE Prefix(text, i - 1)

C7_BannerBeforeEveryField ==
  rendered # Unset =>
    /\ \A k \in 1..Len(BannerFields) :
         LET b == Banner(BannerFields[k])
         IN \E i \in 1..Len(rendered.out) :
              /\ StartsWith(rendered.out[i], <<BannerFields[k], ":">>)
              /\ i > Len(b)
              /\ SubSeq(rendered.out, i - Len(b), i - 1) = b
    /\ Len(rendered.out) =
         Len(rendered.doc) + Len(Banner("connectionUrl")) + Len(Banner("pidFile"))
         + Len(Banner("storeFile")) + Len(Banner("signatureFallback"))
         + Len(Banner("databaseSalt"))

\* C8: the two sub-keys come from the same pre-secret under label/index
\* pairs that differ in both components, and each secret is encrypted under
\* its own sub-key only
C8_SubKeysSeparatedAndUncrossed ==
  /\ ctor.id_secret # Unset =>
       /\ ctor.ctx_secret.parent = ctor.pre_secret
       /\ ctor.id_secret.parent = ctor.pre_secret
       /\ ctor.ctx_secret.index # ctor.id_secret.index
       /\ ctor.ctx_secret.context # ctor.id_secret.context
       /\ ctor.ctx_secret # ctor.id_secret
  /\ ctor.enc_context_key # Unset =>
       /\ Decrypt(ctor.enc_context_key, ctor.ctx_secret)
            = [ok |-> TRUE, plain |-> ctor.context_key]
       /\ ~Decrypt(ctor.enc_context_key, ctor.id_secret).ok
  /\ ctor.enc_id_seed # Unset =>
       /\ Decrypt(ctor.enc_id_seed, ctor.id_secret) = [ok |-> TRUE, plain |-> ctor.id_seed]
       /\ ~Decrypt(ctor.enc_id_seed, ctor.ctx_secret).ok
  /\ result.kind = "ok" =>
       /\ result.config.runtime_secrets_context_key = ctor.enc_context_key
       /\ result.config.runtime_secrets_id_seed = ctor.enc_id_seed

\* C8 witness: a returned record whose two secrets were drawn equal, so only
\* the keys tell the ciphertexts apart
C8_Witness ==
  /\ result.kind = "ok"
  /\ ctor.context_key = ctor.id_seed
  /\ result.config.runtime_secrets_context_key # result.config.runtime_secrets_id_seed

\* where the constructor may hold which guard
GuardsAllowedAt(pc) ==
  CASE pc = "prehash_run" -> {"passphrase"}
    [] pc \in {"ctx_run", "id_run"} -> {"pre_secret"}
    [] pc = "enc_ctx_run" -> {"ctx_secret", "context_key"}
    [] pc = "enc_id_run" -> {"id_secret", "id_seed"}
    [] OTHER -> {}

\* C9: the constructor holds no guard while it is suspended at an await (or
\* after it finished); it holds a guard only inside the one hash, derive or
\* encrypt operation that took it; no cell's lock has two holders
C9_NoGuardAcrossAwait ==
  /\ ctor.pc \in AwaitPoints \cup {"done"} => \A c \in Cells : "ctor" \notin guards[c]
  /\ \A c \in Cells : "ctor" \in guards[c] => c \in GuardsAllowedAt(ctor.pc)
  /\ \A c \in Cells : Cardinality(guards[c]) <= 1

\* C9 witness: the stretch is running, the constructor is suspended on it,
\* and the caller has been able to take the passphrase lock meanwhile
C9_Witness ==
  /\ ctor.pc = "await_stretch"
  /\ task.st = "salted"
  /\ guards["passphrase"] = {"caller"}

StageRank(stage) ==
  CASE stage = "prehash" -> 1
    [] stage = "stretch" -> 2
    [] stage = "fanout" -> 3
    [] stage = "encrypt" -> 4
    [] stage = "assemble" -> 5

\* C10: stages run in pipeline order, each on the previous stage's output;
\* the stretch is executed by the blocking pool only, with the constructor
\* suspended on it, and nothing after it starts before it has finished
C10_OrderedAndStretchOffTask ==
  /\ \A i \in 1..Len(trace) : trace[i].stage = "stretch" => trace[i].by = "blocking"
  /\ \A i, j \in 1..Len(trace) :
       i < j => StageRank(trace[i].stage) <= StageRank(trace[j].stage)
  /\ task.st \in {"queued", "salted"} => ctor.pc = "await_stretch"
  /\ (\E i \in 1..Len(trace) : StageRank(trace[i].stage) > 2) =>
       /\ task.st = "done" /\ task.ok
       /\ \E i \in 1..Len(trace) : trace[i] = [stage |-> "stretch", by |-> "blocking"]
  /\ ctor.pre_secret # Unset =>
       /\ ctor.pre_secret.hash = Blake2b(ctor.passphrase)
       /\ ctor.pre_secret.hash = ctor.pw_hash
  /\ ctor.ctx_secret # Unset => ctor.ctx_secret.parent = ctor.pre_secret
  /\ ctor.id_secret # Unset => ctor.id_secret.parent = ctor.pre_secret
  /\ ctor.enc_context_key # Unset => ctor.enc_context_key.key = ctor.ctx_secret
  /\ ctor.enc_id_seed # Unset => ctor.enc_id_seed.key = ctor.id_secret
  /\ result.kind = "ok" =>
       /\ [i \in 1..Len(trace) |-> trace[i].stage]
            = <<"prehash", "stretch", "fanout", "fanout", "encrypt", "encrypt", "assemble">>
       /\ result.config.runtime_secrets_context_key = ctor.enc_context_key
       /\ result.config.runtime_secrets_id_seed = ctor.enc_id_seed

\* C10 witness: a complete run, all seven stage executions recorded
C10_Witness ==
  /\ result.kind = "ok"
  /\ Len(trace) = 7
  /\ trace[2] = [stage |-> "stretch", by |-> "blocking"]

====
